---- MODULE Spec2Model ----
(***************************************************************************)
(* HD44780 character-LCD driver (Core/Src/LCD.c, Core/Inc/LCD.h), 4-bit    *)
(* bus, bit-banged over GPIO.  The model is a state machine at the         *)
(* granularity of one C statement (one pin-bank call, one delay request,   *)
(* one assignment) per step.  The control stack is a sequence of labels    *)
(* "<function>_<source line>"; the head is the next statement to execute.  *)
(***************************************************************************)
EXTENDS Integers, Sequences, FiniteSets, TLC

(***************************************************************************)
(* Program constants (LCD.h).                                              *)
(***************************************************************************)
LCD_DISPLAY_8_BIT_INIT == 3
LCD_DISPLAY_4_BIT_INIT == 2
LCD_DISPLAY_CURSOR_OFF == 8
LCD_CLEAR_DISPLAY == 1
LCD_CURSOR_AUTO_INCR_ON == 6
LCD_DISPLAY_CURSOR_ON == 14
LCD_DISPLAY_2_LINES_5x10 == 44
LCD_DISPLAY_ON_CURSOR_OFF == 12
LCD_RESET_CURSOR_POSITION == 3
LCD_NIBBLE_SHIFT == 4
LCD_NIBBLE_MASK == 15
LCD_STM32_NIBBLE_SHIFT == 0
LCD_STM32_NIBBLE_MASK == 15
LCD_LONGEST_CMD_US == 1617
LCD_WAIT_CYCLE == 16
LCD_READY_BIT == 8
LCD_ROW_0_START == 128
LCD_ROW_1_START == 192
LCD_ROW_2_START == 148
LCD_ROW_3_START == 212

LCD_READY_DELAY == (LCD_LONGEST_CMD_US * 4) \div LCD_WAIT_CYCLE

(***************************************************************************)
(* Machine arithmetic on unsigned words, computed bit by bit.              *)
(***************************************************************************)
RECURSIVE Pow2(_)
Pow2(n) == IF n = 0 THEN 1 ELSE 2 * Pow2(n - 1)

RECURSIVE BitAnd(_, _)
BitAnd(a, b) ==
    IF a = 0 \/ b = 0 THEN 0
    ELSE (IF a % 2 = 1 /\ b % 2 = 1 THEN 1 ELSE 0) + 2 * BitAnd(a \div 2, b \div 2)

RECURSIVE BitOr(_, _)
BitOr(a, b) ==
    IF a = 0 THEN b
    ELSE IF b = 0 THEN a
    ELSE (IF a % 2 = 1 \/ b % 2 = 1 THEN 1 ELSE 0) + 2 * BitOr(a \div 2, b \div 2)

U8(x) == x % 256
U16(x) == x % 65536
BitNot16(a) == 65535 - U16(a)
Shl(a, n) == a * Pow2(n)
Shr(a, n) == a \div Pow2(n)

Byte == 0 .. 255
Bit == {0, 1}

(***************************************************************************)
(* Sentinels.  NoArg marks a parameter of a public call that the body has  *)
(* not read yet; Wrapped stands for 0xFFFFFFFF, the value a uint32_t       *)
(* decrement of 0 produces.                                                *)
(***************************************************************************)
NoArg == -1
Wrapped == -1

(***************************************************************************)
(* Data pins DB4..DB7 and their two directions.                            *)
(***************************************************************************)
DataPins == {4, 5, 6, 7}
DriveOutput == "DriveOutput"
FloatingInput == "FloatingInput"

(***************************************************************************)
(* Environment: the values the display may put on the input port while it  *)
(* is sampled, the contents of the output register's unrelated bits at     *)
(* power-up, and the power-up level of Register-Select.                    *)
(***************************************************************************)
InputSamples == {0, 8, 65527}
PowerUpPortBits == {42400, 23135}

(***************************************************************************)
(* Bound: a responsive display reports busy on at most this many           *)
(* consecutive samples of one poll; an arbitrary display (slow, absent or  *)
(* miswired) may report anything on every sample.                          *)
(***************************************************************************)
MaxBusySamples == 2

VARIABLES
    display,          \* environment: "responsive" or "arbitrary", fixed at power-up
    stack,            \* control stack of labels, head = next statement
    call,             \* the public operation in progress / last returned
    entry,            \* history: the two flags as that operation found them
    LCD_enableState,  \* LCD.c:57
    LCD_initVar,      \* LCD.c:59
    RS, RnW, E,       \* control pins' output levels
    odr,              \* output data register of DB4_GPIO_Port (16 bit)
    pinMode,          \* direction of each data pin
    cByte,            \* parameter of LCD_WriteControl / LCD_WriteData
    nibble,           \* local of LCD_WriteControl / LCD_WriteData
    nibArg,           \* parameter of LCD_WrDatNib / LCD_WrCntrlNib
    gpioPortData,     \* local of the nibble writes and of LCD_IsReady
    value,            \* local of LCD_IsReady
    timeout,          \* local of LCD_IsReady
    log,              \* history: events of the operation outside the poll loop
    iterLog,          \* history: events of the current poll-loop iteration
    iters,            \* history: completed iterations of the current poll
    firstClear,       \* history: first iteration whose sample had the busy bit clear
    lastPoll,         \* history: how the latest poll loop ended
    configured,       \* history: how often LCD_Init has completed (0, 1, 2 = more)
    directInit,       \* history: LCD_Init has been called directly by the host
    string,           \* parameter of LCD_PrintString: the text, named by its length
    indexU8,          \* local of LCD_PrintString
    current,          \* local of LCD_PrintString
    printed,          \* history: data bytes LCD_PrintString has issued so far
    faithful          \* history: each of them was the character at its place

vFlags == <<display, call, entry, LCD_enableState, LCD_initVar, configured, directInit>>
vByte == <<cByte, nibble>>
vPoll == <<value, timeout, iters, firstClear, lastPoll>>
vPrint == <<string, indexU8, current, printed, faithful>>
vars == <<display, stack, call, entry, LCD_enableState, LCD_initVar, RS, RnW, E, odr, pinMode,
          cByte, nibble, nibArg, gpioPortData, value, timeout,
          log, iterLog, iters, firstClear, lastPoll, configured, directInit,
          string, indexU8, current, printed, faithful>>

(***************************************************************************)
(* Control-stack helpers.                                                  *)
(***************************************************************************)
Idle == stack = <<>>
At(l) == stack # <<>> /\ Head(stack) = l
Goto(l) == stack' = <<l>> \o Tail(stack)
CallTo(callee, ret) == stack' = <<callee, ret>> \o Tail(stack)
Return == stack' = Tail(stack)

DataField(port) == Shr(BitAnd(port, LCD_STM32_NIBBLE_MASK), LCD_STM32_NIBBLE_SHIFT)
AllPins(m) == \A p \in DataPins : pinMode[p] = m

Logged(e) == log' = Append(log, e)
IterLogged(e) == iterLog' = Append(iterLog, e)

(***************************************************************************)
(* State after power-up and platform pin configuration: both flags 0       *)
(* (LCD.c:57-59), control pins low, data pins configured as outputs.       *)
(***************************************************************************)
PlatformPins ==
    /\ RS \in Bit
    /\ RnW = 0
    /\ E = 0
    /\ odr \in PowerUpPortBits
    /\ pinMode = [p \in DataPins |-> DriveOutput]

PowerUp ==
    /\ stack = <<>>
    /\ call = <<"power-up">>
    /\ entry = [initVar |-> 0, enableState |-> 0]
    /\ LCD_enableState = 0
    /\ LCD_initVar = 0
    /\ PlatformPins
    /\ cByte = NoArg
    /\ nibble = 0
    /\ nibArg = 0
    /\ gpioPortData = 0
    /\ value = 0
    /\ timeout = 0
    /\ log = <<>>
    /\ iterLog = <<>>
    /\ iters = 0
    /\ firstClear = 0
    /\ lastPoll = "none"
    /\ configured = 0
    /\ directInit = FALSE
    /\ string = NoArg
    /\ indexU8 = 0
    /\ current = 0
    /\ printed = 0
    /\ faithful = TRUE

Init == PowerUp /\ display = "responsive"
InitBus == PowerUp /\ display = "arbitrary"

(***************************************************************************)
(* Pin bank: the LL_GPIO calls the driver makes, each changing one thing.  *)
(***************************************************************************)
NoPin == UNCHANGED <<RS, RnW, E, odr, pinMode>>
SetRS(v) == RS' = v /\ UNCHANGED <<RnW, E, odr, pinMode>>
SetRnW(v) == RnW' = v /\ UNCHANGED <<RS, E, odr, pinMode>>
SetE(v) == E' = v /\ UNCHANGED <<RS, RnW, odr, pinMode>>
WriteOutputPort(x) == odr' = x /\ UNCHANGED <<RS, RnW, E, pinMode>>
SetPinMode(p, m) == pinMode' = [pinMode EXCEPT ![p] = m] /\ UNCHANGED <<RS, RnW, E, odr>>

(***************************************************************************)
(* The read-modify-write of the data field (LCD.c:272-275, 311-314,        *)
(* 590-592, 653-655).                                                      *)
(***************************************************************************)
\* Faulty variant: the whole register is cleared, not only the data field.
ClearFieldWholePort(port) == BitAnd(port, 0)

ClearField(port) == BitAnd(port, BitNot16(LCD_STM32_NIBBLE_MASK))
InsertNibble(port, nib) ==
    BitOr(port, BitAnd(U16(Shl(nib, LCD_STM32_NIBBLE_SHIFT)), LCD_STM32_NIBBLE_MASK))

(***************************************************************************)
(* LCD_IsReady (LCD.c:582-664).                                            *)
(***************************************************************************)
\* Faulty variant: the sampled port is not masked down to the ready bit.
ReadyValueUnmasked(v) == v

ReadyValue(v) == BitAnd(v, U16(Shl(LCD_READY_BIT, LCD_STM32_NIBBLE_SHIFT)))
Dec32(t) == IF t = 0 \/ t = Wrapped THEN Wrapped ELSE t - 1
\* Faulty variants: the loop test without its timeout half / without its busy half.
LoopAgainNoTimeout(v, t) == v # 0
LoopAgainFullBudget(v, t) == t = Wrapped \/ t > 0

LoopAgain(v, t) == v # 0 /\ (t = Wrapped \/ t > 0)
BusyBit(sample) == (sample \div 8) % 2
Samples ==
    IF display = "responsive" /\ iters >= MaxBusySamples
    THEN {x \in InputSamples : BusyBit(x) = 0}
    ELSE InputSamples

PollFrame == UNCHANGED <<vFlags, vByte, nibArg, vPrint>>
PollEntryStep(from, to) ==
    /\ At(from) /\ Goto(to) /\ PollFrame
    /\ UNCHANGED <<value, timeout, iters, firstClear, lastPoll, iterLog>>
PollLoopStep(from, to) ==
    /\ At(from) /\ Goto(to) /\ PollFrame
    /\ UNCHANGED <<gpioPortData, log, lastPoll>>

IsReady_587 ==
    /\ At("IsReady_587") /\ Goto("IsReady_590") /\ PollFrame
    /\ timeout' = LCD_READY_DELAY
    /\ iters' = 0 /\ firstClear' = 0 /\ lastPoll' = "none" /\ iterLog' = <<>>
    /\ Logged(<<"IsReady">>)
    /\ NoPin /\ UNCHANGED <<gpioPortData, value>>

IsReady_590 ==
    /\ PollEntryStep("IsReady_590", "IsReady_591")
    /\ gpioPortData' = U16(odr)
    /\ NoPin /\ UNCHANGED log

IsReady_591 ==
    /\ PollEntryStep("IsReady_591", "IsReady_592")
    /\ gpioPortData' = ClearField(gpioPortData)
    /\ NoPin /\ UNCHANGED log

\* Faulty variant: the data field is not cleared before the bus is released.
IsReady_592_Skipped ==
    /\ PollEntryStep("IsReady_592", "IsReady_595")
    /\ NoPin /\ UNCHANGED <<gpioPortData, log>>

IsReady_592 ==
    /\ PollEntryStep("IsReady_592", "IsReady_595")
    /\ WriteOutputPort(gpioPortData)
    /\ Logged(<<"port", gpioPortData>>)
    /\ UNCHANGED gpioPortData

IsReady_595 ==
    /\ PollEntryStep("IsReady_595", "IsReady_596")
    /\ SetPinMode(4, FloatingInput)
    /\ Logged(<<"mode", 4, FloatingInput>>)
    /\ UNCHANGED gpioPortData

IsReady_596 ==
    /\ PollEntryStep("IsReady_596", "IsReady_597")
    /\ SetPinMode(5, FloatingInput)
    /\ Logged(<<"mode", 5, FloatingInput>>)
    /\ UNCHANGED gpioPortData

IsReady_597 ==
    /\ PollEntryStep("IsReady_597", "IsReady_598")
    /\ SetPinMode(6, FloatingInput)
    /\ Logged(<<"mode", 6, FloatingInput>>)
    /\ UNCHANGED gpioPortData

\* Faulty variant: DB7 is not released before read mode is selected.
IsReady_598_Skipped ==
    /\ PollEntryStep("IsReady_598", "IsReady_601")
    /\ NoPin /\ UNCHANGED <<gpioPortData, log>>

IsReady_598 ==
    /\ PollEntryStep("IsReady_598", "IsReady_601")
    /\ SetPinMode(7, FloatingInput)
    /\ Logged(<<"mode", 7, FloatingInput>>)
    /\ UNCHANGED gpioPortData

IsReady_601 ==
    /\ PollEntryStep("IsReady_601", "IsReady_604")
    /\ SetRS(0)
    /\ Logged(<<"RS", 0>>)
    /\ UNCHANGED gpioPortData

IsReady_604 ==
    /\ PollEntryStep("IsReady_604", "IsReady_609")
    /\ SetRnW(1)
    /\ Logged(<<"RnW", 1>>)
    /\ UNCHANGED gpioPortData

\* do { ... } while: one iteration is LCD.c:609-647.
IsReady_609 ==
    /\ PollLoopStep("IsReady_609", "IsReady_612")
    /\ iterLog' = << <<"us", 0>> >>
    /\ NoPin /\ UNCHANGED <<value, timeout, iters, firstClear>>

IsReady_612 ==
    /\ PollLoopStep("IsReady_612", "IsReady_615")
    /\ SetE(1)
    /\ IterLogged(<<"E", 1>>)
    /\ UNCHANGED <<value, timeout, iters, firstClear>>

IsReady_615 ==
    /\ PollLoopStep("IsReady_615", "IsReady_618")
    /\ IterLogged(<<"us", 1>>)
    /\ NoPin /\ UNCHANGED <<value, timeout, iters, firstClear>>

\* value = LL_GPIO_ReadInputPort(...): whatever the display drives.
IsReady_618 ==
    /\ PollLoopStep("IsReady_618", "IsReady_621")
    /\ \E sample \in Samples :
        /\ value' = U16(sample)
        /\ IterLogged(<<"sample", sample, E>>)
        /\ firstClear' = IF firstClear = 0 /\ BusyBit(sample) = 0
                         THEN iters + 1 ELSE firstClear
    /\ NoPin /\ UNCHANGED <<timeout, iters>>

IsReady_621 ==
    /\ PollLoopStep("IsReady_621", "IsReady_624")
    /\ SetE(0)
    /\ IterLogged(<<"strobe", DataField(odr), RS, RnW>>)
    /\ UNCHANGED <<value, timeout, iters, firstClear>>

IsReady_624 ==
    /\ PollLoopStep("IsReady_624", "IsReady_627")
    /\ IterLogged(<<"us", 0>>)
    /\ NoPin /\ UNCHANGED <<value, timeout, iters, firstClear>>

IsReady_627 ==
    /\ PollLoopStep("IsReady_627", "IsReady_630")
    /\ value' = ReadyValue(value)
    /\ NoPin /\ UNCHANGED <<timeout, iters, firstClear, iterLog>>

IsReady_630 ==
    /\ PollLoopStep("IsReady_630", "IsReady_633")
    /\ SetE(1)
    /\ IterLogged(<<"E", 1>>)
    /\ UNCHANGED <<value, timeout, iters, firstClear>>

IsReady_633 ==
    /\ PollLoopStep("IsReady_633", "IsReady_636")
    /\ IterLogged(<<"us", 1>>)
    /\ NoPin /\ UNCHANGED <<value, timeout, iters, firstClear>>

\* Faulty variant: the second Enable pulse is never ended.
IsReady_636_EnableLeftHigh ==
    /\ PollLoopStep("IsReady_636", "IsReady_639")
    /\ NoPin /\ UNCHANGED <<value, timeout, iters, firstClear, iterLog>>

IsReady_636 ==
    /\ PollLoopStep("IsReady_636", "IsReady_639")
    /\ SetE(0)
    /\ IterLogged(<<"strobe", DataField(odr), RS, RnW>>)
    /\ UNCHANGED <<value, timeout, iters, firstClear>>

\* if (value == 0u) delay_us(10u);
IsReady_639 ==
    /\ PollLoopStep("IsReady_639", "IsReady_645")
    /\ IF value = 0 THEN IterLogged(<<"us", 10>>) ELSE UNCHANGED iterLog
    /\ NoPin /\ UNCHANGED <<value, timeout, iters, firstClear>>

IsReady_645 ==
    /\ PollLoopStep("IsReady_645", "IsReady_647")
    /\ timeout' = Dec32(timeout)
    /\ iters' = iters + 1
    /\ NoPin /\ UNCHANGED <<value, firstClear, iterLog>>

IsReady_647 ==
    /\ At("IsReady_647") /\ PollFrame
    /\ IF LoopAgain(value, timeout)
       THEN Goto("IsReady_609") /\ UNCHANGED lastPoll
       ELSE Goto("IsReady_650") /\ lastPoll' = IF value # 0 THEN "timeout" ELSE "ready"
    /\ NoPin
    /\ UNCHANGED <<gpioPortData, log, value, timeout, iters, firstClear, iterLog>>

\* Faulty variant: read mode is kept while the pins are turned back to outputs.
IsReady_650_ReadModeKept ==
    /\ PollEntryStep("IsReady_650", "IsReady_653")
    /\ NoPin /\ UNCHANGED <<gpioPortData, log>>

IsReady_650 ==
    /\ PollEntryStep("IsReady_650", "IsReady_653")
    /\ SetRnW(0)
    /\ Logged(<<"RnW", 0>>)
    /\ UNCHANGED gpioPortData

IsReady_653 ==
    /\ PollEntryStep("IsReady_653", "IsReady_654")
    /\ gpioPortData' = U16(odr)
    /\ NoPin /\ UNCHANGED log

IsReady_654 ==
    /\ PollEntryStep("IsReady_654", "IsReady_655")
    /\ gpioPortData' = ClearField(gpioPortData)
    /\ NoPin /\ UNCHANGED log

IsReady_655 ==
    /\ PollEntryStep("IsReady_655", "IsReady_658")
    /\ WriteOutputPort(gpioPortData)
    /\ Logged(<<"port", gpioPortData>>)
    /\ UNCHANGED gpioPortData

IsReady_658 ==
    /\ PollEntryStep("IsReady_658", "IsReady_659")
    /\ SetPinMode(4, DriveOutput)
    /\ Logged(<<"mode", 4, DriveOutput>>)
    /\ UNCHANGED gpioPortData

\* Faulty variant: DB5 is not switched back to output.
IsReady_659_Skipped ==
    /\ PollEntryStep("IsReady_659", "IsReady_660")
    /\ NoPin /\ UNCHANGED <<gpioPortData, log>>

IsReady_659 ==
    /\ PollEntryStep("IsReady_659", "IsReady_660")
    /\ SetPinMode(5, DriveOutput)
    /\ Logged(<<"mode", 5, DriveOutput>>)
    /\ UNCHANGED gpioPortData

\* Faulty variant: DB6 is switched back to output only after a successful poll.
IsReady_660_OnlyIfReady ==
    /\ PollEntryStep("IsReady_660", "IsReady_661")
    /\ IF value = 0
       THEN SetPinMode(6, DriveOutput) /\ Logged(<<"mode", 6, DriveOutput>>)
       ELSE NoPin /\ UNCHANGED log
    /\ UNCHANGED gpioPortData

IsReady_660 ==
    /\ PollEntryStep("IsReady_660", "IsReady_661")
    /\ SetPinMode(6, DriveOutput)
    /\ Logged(<<"mode", 6, DriveOutput>>)
    /\ UNCHANGED gpioPortData

\* Faulty variant: DB7 is not switched back to output.
IsReady_661_Skipped ==
    /\ PollEntryStep("IsReady_661", "IsReady_662")
    /\ NoPin /\ UNCHANGED <<gpioPortData, log>>

IsReady_661 ==
    /\ PollEntryStep("IsReady_661", "IsReady_662")
    /\ SetPinMode(7, DriveOutput)
    /\ Logged(<<"mode", 7, DriveOutput>>)
    /\ UNCHANGED gpioPortData

\* LL_GPIO_SetPinOutputType(..., PUSHPULL): the pins already are push-pull.
IsReady_662 ==
    /\ PollEntryStep("IsReady_662", "IsReady_664")
    /\ Logged(<<"otype">>)
    /\ NoPin /\ UNCHANGED gpioPortData

\* Return: the locals go out of scope.
IsReady_664 ==
    /\ At("IsReady_664") /\ Return /\ PollFrame
    /\ gpioPortData' = 0 /\ value' = 0 /\ timeout' = 0
    /\ iters' = 0 /\ firstClear' = 0 /\ iterLog' = <<>>
    /\ NoPin /\ UNCHANGED <<log, lastPoll>>

LCD_IsReady ==
    \/ IsReady_587 \/ IsReady_590 \/ IsReady_591 \/ IsReady_592
    \/ IsReady_595 \/ IsReady_596 \/ IsReady_597 \/ IsReady_598
    \/ IsReady_601 \/ IsReady_604
    \/ IsReady_609 \/ IsReady_612 \/ IsReady_615 \/ IsReady_618
    \/ IsReady_621 \/ IsReady_624 \/ IsReady_627 \/ IsReady_630
    \/ IsReady_633 \/ IsReady_636 \/ IsReady_639 \/ IsReady_645 \/ IsReady_647
    \/ IsReady_650 \/ IsReady_653 \/ IsReady_654 \/ IsReady_655
    \/ IsReady_658 \/ IsReady_659 \/ IsReady_660 \/ IsReady_661
    \/ IsReady_662 \/ IsReady_664

(***************************************************************************)
(* LCD_WrDatNib (LCD.c:259-285) and LCD_WrCntrlNib (LCD.c:302-323).        *)
(***************************************************************************)
NibFrame == UNCHANGED <<vFlags, vByte, nibArg, vPoll, iterLog, vPrint>>
NibStep(from, to) == At(from) /\ Goto(to) /\ NibFrame

WrDatNib_264 ==
    /\ NibStep("WrDatNib_264", "WrDatNib_266")
    /\ SetRS(1)
    /\ Logged(<<"RS", 1>>)
    /\ UNCHANGED gpioPortData

WrDatNib_266 ==
    /\ NibStep("WrDatNib_266", "WrDatNib_269")
    /\ SetRnW(0)
    /\ Logged(<<"RnW", 0>>)
    /\ UNCHANGED gpioPortData

\* Faulty variant: the data nibble is strobed without the set-up delay.
WrDatNib_269_NoDelay ==
    /\ NibStep("WrDatNib_269", "WrDatNib_272")
    /\ NoPin /\ UNCHANGED <<gpioPortData, log>>

WrDatNib_269 ==
    /\ NibStep("WrDatNib_269", "WrDatNib_272")
    /\ Logged(<<"us", 2>>)
    /\ NoPin /\ UNCHANGED gpioPortData

WrDatNib_272 ==
    /\ NibStep("WrDatNib_272", "WrDatNib_273")
    /\ gpioPortData' = U16(odr)
    /\ NoPin /\ UNCHANGED log

WrDatNib_273 ==
    /\ NibStep("WrDatNib_273", "WrDatNib_274")
    /\ gpioPortData' = ClearField(gpioPortData)
    /\ NoPin /\ UNCHANGED log

WrDatNib_274 ==
    /\ NibStep("WrDatNib_274", "WrDatNib_275")
    /\ gpioPortData' = InsertNibble(gpioPortData, nibArg)
    /\ NoPin /\ UNCHANGED log

WrDatNib_275 ==
    /\ NibStep("WrDatNib_275", "WrDatNib_278")
    /\ WriteOutputPort(gpioPortData)
    /\ Logged(<<"port", gpioPortData>>)
    /\ UNCHANGED gpioPortData

WrDatNib_278 ==
    /\ NibStep("WrDatNib_278", "WrDatNib_281")
    /\ SetE(1)
    /\ Logged(<<"E", 1>>)
    /\ UNCHANGED gpioPortData

WrDatNib_281 ==
    /\ NibStep("WrDatNib_281", "WrDatNib_284")
    /\ Logged(<<"us", 1>>)
    /\ NoPin /\ UNCHANGED gpioPortData

WrDatNib_284 ==
    /\ NibStep("WrDatNib_284", "WrDatNib_285")
    /\ SetE(0)
    /\ Logged(<<"strobe", DataField(odr), RS, RnW>>)
    /\ UNCHANGED gpioPortData

WrDatNib_285 ==
    /\ At("WrDatNib_285") /\ Return
    /\ gpioPortData' = 0 /\ nibArg' = 0
    /\ NoPin /\ UNCHANGED <<vFlags, vByte, vPoll, iterLog, log, vPrint>>

LCD_WrDatNib ==
    \/ WrDatNib_264 \/ WrDatNib_266 \/ WrDatNib_269 \/ WrDatNib_272
    \/ WrDatNib_273 \/ WrDatNib_274 \/ WrDatNib_275 \/ WrDatNib_278
    \/ WrDatNib_281 \/ WrDatNib_284 \/ WrDatNib_285

\* LL_GPIO_ResetOutputPin(RS_GPIO_Port, RS_Pin | RnW_Pin): RS and R/nW are
\* pins of one port (LCD.c:20-21), so the one call clears both.
WrCntrlNib_307 ==
    /\ NibStep("WrCntrlNib_307", "WrCntrlNib_311")
    /\ RS' = 0 /\ RnW' = 0 /\ UNCHANGED <<E, odr, pinMode>>
    /\ log' = log \o << <<"RS", 0>>, <<"RnW", 0>> >>
    /\ UNCHANGED gpioPortData

WrCntrlNib_311 ==
    /\ NibStep("WrCntrlNib_311", "WrCntrlNib_312")
    /\ gpioPortData' = U16(odr)
    /\ NoPin /\ UNCHANGED log

WrCntrlNib_312 ==
    /\ NibStep("WrCntrlNib_312", "WrCntrlNib_313")
    /\ gpioPortData' = ClearField(gpioPortData)
    /\ NoPin /\ UNCHANGED log

WrCntrlNib_313 ==
    /\ NibStep("WrCntrlNib_313", "WrCntrlNib_314")
    /\ gpioPortData' = InsertNibble(gpioPortData, nibArg)
    /\ NoPin /\ UNCHANGED log

WrCntrlNib_314 ==
    /\ NibStep("WrCntrlNib_314", "WrCntrlNib_317")
    /\ WriteOutputPort(gpioPortData)
    /\ Logged(<<"port", gpioPortData>>)
    /\ UNCHANGED gpioPortData

WrCntrlNib_317 ==
    /\ NibStep("WrCntrlNib_317", "WrCntrlNib_320")
    /\ SetE(1)
    /\ Logged(<<"E", 1>>)
    /\ UNCHANGED gpioPortData

\* Faulty variant: Enable is lowered without the dwell delay.
WrCntrlNib_320_NoDwell ==
    /\ NibStep("WrCntrlNib_320", "WrCntrlNib_322")
    /\ NoPin /\ UNCHANGED <<gpioPortData, log>>

WrCntrlNib_320 ==
    /\ NibStep("WrCntrlNib_320", "WrCntrlNib_322")
    /\ Logged(<<"us", 1>>)
    /\ NoPin /\ UNCHANGED gpioPortData

WrCntrlNib_322 ==
    /\ NibStep("WrCntrlNib_322", "WrCntrlNib_323")
    /\ SetE(0)
    /\ Logged(<<"strobe", DataField(odr), RS, RnW>>)
    /\ UNCHANGED gpioPortData

WrCntrlNib_323 ==
    /\ At("WrCntrlNib_323") /\ Return
    /\ gpioPortData' = 0 /\ nibArg' = 0
    /\ NoPin /\ UNCHANGED <<vFlags, vByte, vPoll, iterLog, log, vPrint>>

LCD_WrCntrlNib ==
    \/ WrCntrlNib_307 \/ WrCntrlNib_311 \/ WrCntrlNib_312 \/ WrCntrlNib_313
    \/ WrCntrlNib_314 \/ WrCntrlNib_317 \/ WrCntrlNib_320 \/ WrCntrlNib_322
    \/ WrCntrlNib_323

(***************************************************************************)
(* LCD_WriteData (LCD.c:193-208) and LCD_WriteControl (LCD.c:225-240).     *)
(* The byte parameter of a public call is drawn where the body first reads *)
(* it (LCD.c:200, 232): nothing before that line depends on it.            *)
(***************************************************************************)
\* Faulty variant: the shift is dropped, so the low nibble is sent twice.
HiNibbleUnshifted(b) == BitAnd(b, LCD_NIBBLE_MASK)

HiNibble(b) == U8(Shr(b, LCD_NIBBLE_SHIFT))
LoNibble(b) == BitAnd(b, LCD_NIBBLE_MASK)

Given(arg) == IF arg = NoArg THEN Byte ELSE {arg}
Resolved(b) == IF Len(call) = 2 /\ call[2] = NoArg THEN <<call[1], b>> ELSE call

ByteFrame == NoPin /\ UNCHANGED <<display, entry, directInit, LCD_enableState, LCD_initVar, configured,
                                  gpioPortData, vPoll, iterLog, log, vPrint>>

WriteData_197 ==
    /\ At("WriteData_197") /\ CallTo("IsReady_587", "WriteData_200")
    /\ ByteFrame /\ UNCHANGED <<call, cByte, nibble, nibArg>>

WriteData_200 ==
    /\ At("WriteData_200") /\ Goto("WriteData_203")
    /\ \E b \in Given(cByte) :
        /\ cByte' = b
        /\ call' = Resolved(b)
        /\ nibble' = HiNibble(b)
    /\ ByteFrame /\ UNCHANGED nibArg

WriteData_203 ==
    /\ At("WriteData_203") /\ CallTo("WrDatNib_264", "WriteData_205")
    /\ nibArg' = nibble
    /\ ByteFrame /\ UNCHANGED <<call, cByte, nibble>>

WriteData_205 ==
    /\ At("WriteData_205") /\ Goto("WriteData_207")
    /\ nibble' = LoNibble(cByte)
    /\ ByteFrame /\ UNCHANGED <<call, cByte, nibArg>>

WriteData_207 ==
    /\ At("WriteData_207") /\ CallTo("WrDatNib_264", "WriteData_208")
    /\ nibArg' = nibble
    /\ ByteFrame /\ UNCHANGED <<call, cByte, nibble>>

WriteData_208 ==
    /\ At("WriteData_208") /\ Return
    /\ cByte' = NoArg /\ nibble' = 0
    /\ ByteFrame /\ UNCHANGED <<call, nibArg>>

LCD_WriteData ==
    \/ WriteData_197 \/ WriteData_200 \/ WriteData_203
    \/ WriteData_205 \/ WriteData_207 \/ WriteData_208

WriteControl_229 ==
    /\ At("WriteControl_229") /\ CallTo("IsReady_587", "WriteControl_232")
    /\ ByteFrame /\ UNCHANGED <<call, cByte, nibble, nibArg>>

WriteControl_232 ==
    /\ At("WriteControl_232") /\ Goto("WriteControl_235")
    /\ \E b \in Given(cByte) :
        /\ cByte' = b
        /\ call' = Resolved(b)
        /\ nibble' = HiNibble(b)
    /\ ByteFrame /\ UNCHANGED nibArg

WriteControl_235 ==
    /\ At("WriteControl_235") /\ CallTo("WrCntrlNib_307", "WriteControl_236")
    /\ nibArg' = nibble
    /\ ByteFrame /\ UNCHANGED <<call, cByte, nibble>>

\* Faulty variant: the low nibble is preceded by a readiness poll of its own.
WriteControl_236_Repoll ==
    /\ At("WriteControl_236") /\ CallTo("IsReady_587", "WriteControl_239")
    /\ nibble' = LoNibble(cByte)
    /\ ByteFrame /\ UNCHANGED <<call, cByte, nibArg>>

WriteControl_236 ==
    /\ At("WriteControl_236") /\ Goto("WriteControl_239")
    /\ nibble' = LoNibble(cByte)
    /\ ByteFrame /\ UNCHANGED <<call, cByte, nibArg>>

WriteControl_239 ==
    /\ At("WriteControl_239") /\ CallTo("WrCntrlNib_307", "WriteControl_240")
    /\ nibArg' = nibble
    /\ ByteFrame /\ UNCHANGED <<call, cByte, nibble>>

WriteControl_240 ==
    /\ At("WriteControl_240") /\ Return
    /\ cByte' = NoArg /\ nibble' = 0
    /\ ByteFrame /\ UNCHANGED <<call, nibArg>>

LCD_WriteControl ==
    \/ WriteControl_229 \/ WriteControl_232 \/ WriteControl_235
    \/ WriteControl_236 \/ WriteControl_239 \/ WriteControl_240

(***************************************************************************)
(* LCD_Init (LCD.c:84-109), LCD_Enable (LCD.c:133-137) and LCD_Start       *)
(* (LCD.c:165-176).                                                        *)
(***************************************************************************)
Once(n) == IF n = 0 THEN 1 ELSE 2

LifeFrame == NoPin /\ UNCHANGED <<display, call, entry, directInit, nibble, gpioPortData, vPoll, iterLog, vPrint>>

HAL_Delay(from, to, ms) ==
    /\ At(from) /\ Goto(to)
    /\ Logged(<<"ms", ms>>)
    /\ LifeFrame /\ UNCHANGED <<LCD_enableState, LCD_initVar, configured, cByte, nibArg>>

InitNibble(from, to, nib) ==
    /\ At(from) /\ CallTo("WrCntrlNib_307", to)
    /\ nibArg' = nib
    /\ LifeFrame /\ UNCHANGED <<LCD_enableState, LCD_initVar, configured, cByte, log>>

InitCommand(from, to, byte) ==
    /\ At(from) /\ CallTo("WriteControl_229", to)
    /\ cByte' = byte
    /\ LifeFrame /\ UNCHANGED <<LCD_enableState, LCD_initVar, configured, nibArg, log>>

Init_87 == HAL_Delay("Init_87", "Init_88", 40)
Init_88 == InitNibble("Init_88", "Init_89", LCD_DISPLAY_8_BIT_INIT)
Init_89 == HAL_Delay("Init_89", "Init_90", 5)
Init_90 == InitNibble("Init_90", "Init_91", LCD_DISPLAY_8_BIT_INIT)
Init_91 == HAL_Delay("Init_91", "Init_92", 15)
Init_92 == InitNibble("Init_92", "Init_93", LCD_DISPLAY_8_BIT_INIT)
Init_93 == HAL_Delay("Init_93", "Init_94", 1)
\* Faulty variant: the fourth bootstrap nibble selects 8-bit mode again.
Init_94_EightBit == InitNibble("Init_94", "Init_95", LCD_DISPLAY_8_BIT_INIT)

Init_94 == InitNibble("Init_94", "Init_95", LCD_DISPLAY_4_BIT_INIT)
Init_95 == HAL_Delay("Init_95", "Init_97", 5)
Init_97 == InitCommand("Init_97", "Init_98", LCD_CURSOR_AUTO_INCR_ON)
Init_98 == InitCommand("Init_98", "Init_99", LCD_DISPLAY_CURSOR_ON)
Init_99 == InitCommand("Init_99", "Init_100", LCD_DISPLAY_2_LINES_5x10)
Init_100 == InitCommand("Init_100", "Init_101", LCD_DISPLAY_CURSOR_OFF)
Init_101 == InitCommand("Init_101", "Init_102", LCD_CLEAR_DISPLAY)
\* Faulty variant: the display is not switched back on after the clear.
Init_102_Omitted ==
    /\ At("Init_102") /\ Goto("Init_103")
    /\ LifeFrame /\ UNCHANGED <<LCD_enableState, LCD_initVar, configured, cByte, nibArg, log>>

Init_102 == InitCommand("Init_102", "Init_103", LCD_DISPLAY_ON_CURSOR_OFF)
Init_103 == InitCommand("Init_103", "Init_104", LCD_RESET_CURSOR_POSITION)
Init_104 == HAL_Delay("Init_104", "Init_109", 5)

Init_109 ==
    /\ At("Init_109") /\ Return
    /\ configured' = Once(configured)
    /\ Logged(<<"configured">>)
    /\ LifeFrame /\ UNCHANGED <<LCD_enableState, LCD_initVar, cByte, nibArg>>

LCD_Init ==
    \/ Init_87 \/ Init_88 \/ Init_89 \/ Init_90 \/ Init_91 \/ Init_92
    \/ Init_93 \/ Init_94 \/ Init_95 \/ Init_97 \/ Init_98 \/ Init_99
    \/ Init_100 \/ Init_101 \/ Init_102 \/ Init_103 \/ Init_104 \/ Init_109

\* LCD_DisplayOn() is LCD_WriteControl(LCD_DISPLAY_ON_CURSOR_OFF) (LCD.h:49).
Enable_135 == InitCommand("Enable_135", "Enable_136", LCD_DISPLAY_ON_CURSOR_OFF)

Enable_136 ==
    /\ At("Enable_136") /\ Goto("Enable_137")
    /\ LCD_enableState' = 1
    /\ LifeFrame /\ UNCHANGED <<LCD_initVar, configured, cByte, nibArg, log>>

Enable_137 ==
    /\ At("Enable_137") /\ Return
    /\ LifeFrame /\ UNCHANGED <<LCD_enableState, LCD_initVar, configured, cByte, nibArg, log>>

LCD_Enable == Enable_135 \/ Enable_136 \/ Enable_137

\* Faulty variant: the guard of LCD_Start always lets LCD_Init run.
NeedsInitAlways(initVar) == initVar = initVar

NeedsInit(initVar) == initVar = 0

Start_168 ==
    /\ At("Start_168")
    /\ IF NeedsInit(LCD_initVar) THEN Goto("Start_170") ELSE Goto("Start_175")
    /\ LifeFrame /\ UNCHANGED <<LCD_enableState, LCD_initVar, configured, cByte, nibArg, log>>

Start_170 ==
    /\ At("Start_170") /\ CallTo("Init_87", "Start_171")
    /\ Logged(<<"LCD_Init">>)
    /\ LifeFrame /\ UNCHANGED <<LCD_enableState, LCD_initVar, configured, cByte, nibArg>>

\* Faulty variant: LCD_Start does not set the flag.
Start_171_FlagNotSet ==
    /\ At("Start_171") /\ Goto("Start_175")
    /\ LifeFrame /\ UNCHANGED <<LCD_enableState, LCD_initVar, configured, cByte, nibArg, log>>

Start_171 ==
    /\ At("Start_171") /\ Goto("Start_175")
    /\ LCD_initVar' = 1
    /\ LifeFrame /\ UNCHANGED <<LCD_enableState, configured, cByte, nibArg, log>>

Start_175 ==
    /\ At("Start_175") /\ CallTo("Enable_135", "Start_176")
    /\ Logged(<<"LCD_Enable">>)
    /\ LifeFrame /\ UNCHANGED <<LCD_enableState, LCD_initVar, configured, cByte, nibArg>>

Start_176 ==
    /\ At("Start_176") /\ Return
    /\ LifeFrame /\ UNCHANGED <<LCD_enableState, LCD_initVar, configured, cByte, nibArg, log>>

LCD_Start == Start_168 \/ Start_170 \/ Start_171 \/ Start_175 \/ Start_176

(***************************************************************************)
(* LCD_Position (LCD.c:345-365).  Each parameter is drawn where the body   *)
(* first reads it: row at the switch, column in the selected case; call    *)
(* records them as <<"LCD_Position", row, column>>.                        *)
(***************************************************************************)
PosFrame ==
    /\ NoPin
    /\ UNCHANGED <<display, entry, directInit, LCD_enableState, LCD_initVar, configured,
                   nibble, nibArg, gpioPortData, vPoll, iterLog, log, vPrint>>

\* Faulty variant: the switch has no default, rows above 3 run the last case.
RowCaseNoDefault(r) ==
    IF r = 0 THEN "Position_350"
    ELSE IF r = 1 THEN "Position_353"
    ELSE IF r = 2 THEN "Position_356"
    ELSE "Position_359"

RowCase(r) ==
    IF r = 0 THEN "Position_350"
    ELSE IF r = 1 THEN "Position_353"
    ELSE IF r = 2 THEN "Position_356"
    ELSE IF r = 3 THEN "Position_359"
    ELSE "Position_363"

Position_347 ==
    /\ At("Position_347")
    /\ \E r \in Given(call[2]) :
        /\ call' = <<call[1], r, call[3]>>
        /\ Goto(RowCase(r))
    /\ PosFrame /\ UNCHANGED cByte

\* Faulty variant: the column is or-ed into the row's start address.
PositionCommandOr(start, col) == BitOr(start, col)

\* LCD_ROW_n_START + column is an int; the uint8_t parameter of
\* LCD_WriteControl receives its low eight bits.
PositionCommand(start, col) == U8(start + col)

SetAddress(from, to, start) ==
    /\ At(from) /\ CallTo("WriteControl_229", to)
    /\ \E c \in Given(call[3]) :
        /\ call' = <<call[1], call[2], c>>
        /\ cByte' = PositionCommand(start, c)
    /\ PosFrame

Break(from) ==
    /\ At(from) /\ Goto("Position_365")
    /\ PosFrame /\ UNCHANGED <<call, cByte>>

Position_350 == SetAddress("Position_350", "Position_351", LCD_ROW_0_START)
Position_351 == Break("Position_351")
Position_353 == SetAddress("Position_353", "Position_354", LCD_ROW_1_START)
Position_354 == Break("Position_354")
Position_356 == SetAddress("Position_356", "Position_357", LCD_ROW_2_START)
Position_357 == Break("Position_357")
Position_359 == SetAddress("Position_359", "Position_360", LCD_ROW_3_START)
Position_360 == Break("Position_360")
Position_363 == Break("Position_363")

Position_365 ==
    /\ At("Position_365") /\ Return
    /\ PosFrame /\ UNCHANGED <<call, cByte>>

LCD_Position ==
    \/ Position_347 \/ Position_350 \/ Position_351 \/ Position_353
    \/ Position_354 \/ Position_356 \/ Position_357 \/ Position_359
    \/ Position_360 \/ Position_363 \/ Position_365

(***************************************************************************)
(* LCD_PrintString (LCD.c:382-394).  The argument is a zero-terminated     *)
(* text of non-zero characters; string holds its length and CharAt reads   *)
(* it (neighbouring characters differ, and so do the characters 256 places *)
(* apart).  The loop reads no index beyond the terminator.  During the     *)
(* call, log holds the events of the character being written.              *)
(***************************************************************************)
StringLengths == {0, 1, 2, 255, 256, 257}
CharAt(len, i) == IF i < len THEN 1 + (i % 251) ELSE 0

\* Bound: the loop is followed up to this many data bytes.
MaxPrinted == 258

PrintFrame ==
    /\ NoPin
    /\ UNCHANGED <<display, call, entry, directInit, LCD_enableState, LCD_initVar, configured,
                   nibble, nibArg, gpioPortData, vPoll, iterLog, string>>

PrintString_384 ==
    /\ At("PrintString_384") /\ Goto("PrintString_385")
    /\ indexU8' = 1
    /\ PrintFrame /\ UNCHANGED <<cByte, current, printed, faithful, log>>

PrintString_385 ==
    /\ At("PrintString_385") /\ Goto("PrintString_388")
    /\ current' = CharAt(string, 0)
    /\ PrintFrame /\ UNCHANGED <<cByte, indexU8, printed, faithful, log>>

PrintString_388 ==
    /\ At("PrintString_388")
    /\ IF current # 0 THEN Goto("PrintString_390") ELSE Goto("PrintString_394")
    /\ PrintFrame /\ UNCHANGED <<cByte, indexU8, current, printed, faithful, log>>

PrintString_390 ==
    /\ At("PrintString_390") /\ CallTo("WriteData_197", "PrintString_391")
    /\ printed < MaxPrinted
    /\ cByte' = U8(current)
    /\ log' = <<>>
    /\ PrintFrame /\ UNCHANGED <<indexU8, current, printed, faithful>>

NextIndex(i) == U8(i + 1)

\* The write has returned: its two strobes are on record.
PrintString_391 ==
    /\ At("PrintString_391") /\ Goto("PrintString_392")
    /\ current' = CharAt(string, indexU8)
    /\ printed' = printed + 1
    /\ faithful' = (faithful /\ log # <<>>
                      /\ SelectSeq(log, LAMBDA e : e[1] = "strobe")
                           = << <<"strobe", CharAt(string, printed) \div 16, 1, 0>>,
                                <<"strobe", CharAt(string, printed) % 16, 1, 0>> >>)
    /\ PrintFrame /\ UNCHANGED <<cByte, indexU8, log>>

PrintString_392 ==
    /\ At("PrintString_392") /\ Goto("PrintString_388")
    /\ indexU8' = NextIndex(indexU8)
    /\ PrintFrame /\ UNCHANGED <<cByte, current, printed, faithful, log>>

PrintString_394 ==
    /\ At("PrintString_394") /\ Return
    /\ indexU8' = 0 /\ current' = 0
    /\ PrintFrame /\ UNCHANGED <<cByte, printed, faithful, log>>

LCD_PrintString ==
    \/ PrintString_384 \/ PrintString_385 \/ PrintString_388 \/ PrintString_390
    \/ PrintString_391 \/ PrintString_392 \/ PrintString_394

(***************************************************************************)
(* A public call from the idle host: the history of the previous operation *)
(* is dropped and the callee's first statement becomes the next step.      *)
(***************************************************************************)
EnterWith(op, callee, text) ==
    /\ Idle
    /\ stack' = <<callee>>
    /\ call' = op
    /\ entry' = [initVar |-> LCD_initVar, enableState |-> LCD_enableState]
    /\ log' = <<>>
    /\ lastPoll' = "none"
    /\ string' = text
    /\ printed' = 0
    /\ faithful' = TRUE
    /\ NoPin
    /\ UNCHANGED <<display, LCD_enableState, LCD_initVar, configured, nibble, nibArg,
                   gpioPortData, value, timeout, iterLog, iters, firstClear,
                   indexU8, current>>

Enter(op, callee) == EnterWith(op, callee, NoArg)

CallIsReady ==
    Enter(<<"LCD_IsReady">>, "IsReady_587") /\ UNCHANGED <<cByte, directInit>>
CallWriteControl ==
    /\ Enter(<<"LCD_WriteControl", NoArg>>, "WriteControl_229")
    /\ cByte' = NoArg /\ UNCHANGED directInit
CallWriteData ==
    /\ Enter(<<"LCD_WriteData", NoArg>>, "WriteData_197")
    /\ cByte' = NoArg /\ UNCHANGED directInit
CallInit ==
    Enter(<<"LCD_Init">>, "Init_87") /\ directInit' = TRUE /\ UNCHANGED cByte
CallEnable ==
    Enter(<<"LCD_Enable">>, "Enable_135") /\ UNCHANGED <<cByte, directInit>>
CallStart ==
    Enter(<<"LCD_Start">>, "Start_168") /\ UNCHANGED <<cByte, directInit>>
CallPosition ==
    Enter(<<"LCD_Position", NoArg, NoArg>>, "Position_347") /\ UNCHANGED <<cByte, directInit>>
CallPrintString ==
    \E len \in StringLengths :
        /\ EnterWith(<<"LCD_PrintString">>, "PrintString_384", len)
        /\ UNCHANGED <<cByte, directInit>>

Next ==
    \/ CallIsReady \/ CallWriteControl \/ CallWriteData
    \/ CallInit \/ CallEnable \/ CallStart
    \/ LCD_IsReady \/ LCD_WrDatNib \/ LCD_WrCntrlNib
    \/ LCD_WriteData \/ LCD_WriteControl
    \/ LCD_Init \/ LCD_Enable \/ LCD_Start

Spec == Init /\ [][Next]_vars

\* The bus-transaction layer alone, against an arbitrary display.
NextBus ==
    \/ CallIsReady \/ CallWriteControl \/ CallWriteData
    \/ LCD_IsReady \/ LCD_WrDatNib \/ LCD_WrCntrlNib
    \/ LCD_WriteData \/ LCD_WriteControl

SpecBus == InitBus /\ [][NextBus]_vars

\* The readiness poll alone.  The host's single thread of control keeps
\* executing the function it is in, hence the weak fairness of its steps.
NextPoll == CallIsReady \/ LCD_IsReady

FairPoll == InitBus /\ [][NextPoll]_vars /\ WF_vars(LCD_IsReady)

\* Cursor positioning alone, for every row and column.
NextPosition ==
    \/ CallPosition \/ LCD_Position
    \/ LCD_WriteControl \/ LCD_IsReady \/ LCD_WrCntrlNib

SpecPosition == Init /\ [][NextPosition]_vars

\* Printing alone, for short texts and for texts of 255 characters and more.
NextPrint ==
    \/ CallPrintString \/ LCD_PrintString
    \/ LCD_WriteData \/ LCD_IsReady \/ LCD_WrDatNib

SpecPrint == Init /\ [][NextPrint]_vars

(***************************************************************************)
(* Vocabulary of the properties.                                           *)
(***************************************************************************)
PollLabels ==
    {"IsReady_587", "IsReady_590", "IsReady_591", "IsReady_592", "IsReady_595",
     "IsReady_596", "IsReady_597", "IsReady_598", "IsReady_601", "IsReady_604",
     "IsReady_609", "IsReady_612", "IsReady_615", "IsReady_618", "IsReady_621",
     "IsReady_624", "IsReady_627", "IsReady_630", "IsReady_633", "IsReady_636",
     "IsReady_639", "IsReady_645", "IsReady_647", "IsReady_650", "IsReady_653",
     "IsReady_654", "IsReady_655", "IsReady_658", "IsReady_659", "IsReady_660",
     "IsReady_661", "IsReady_662", "IsReady_664"}
NibbleLabels ==
    {"WrDatNib_264", "WrDatNib_266", "WrDatNib_269", "WrDatNib_272", "WrDatNib_273",
     "WrDatNib_274", "WrDatNib_275", "WrDatNib_278", "WrDatNib_281", "WrDatNib_284",
     "WrDatNib_285", "WrCntrlNib_307", "WrCntrlNib_311", "WrCntrlNib_312",
     "WrCntrlNib_313", "WrCntrlNib_314", "WrCntrlNib_317", "WrCntrlNib_320",
     "WrCntrlNib_322", "WrCntrlNib_323"}
InPoll == stack # <<>> /\ Head(stack) \in PollLabels
InNibbleWrite == stack # <<>> /\ Head(stack) \in NibbleLabels
PollReturns == At("IsReady_664")

IsStrobe(e) == e[1] = "strobe"
Strobes(l) == SelectSeq(l, IsStrobe)
Strobe(d, rs) == <<"strobe", d, rs, 0>>
ByteStrobes(b, rs) == <<Strobe(b \div 16, rs), Strobe(b % 16, rs)>>

WroteByte == Idle /\ call[1] \in {"LCD_WriteControl", "LCD_WriteData"}
ModeOf(op) == IF op = "LCD_WriteData" THEN 1 ELSE 0

\* The attempt budget as the claims state it.
ClaimedBudget == 404

(***************************************************************************)
(* C1: when a public LCD_WriteControl(b) / LCD_WriteData(b) has returned,  *)
(* the write strobes it produced (falling edges of Enable outside the      *)
(* poll loop) are exactly two: the data field carried b>>4 at the first    *)
(* and b&0xF at the second, with Register-Select = the mode (0 Command,    *)
(* 1 Data) and Read/Write-select = 0 at both.                              *)
(***************************************************************************)
C1_ByteIsTwoNibbleStrobes ==
    WroteByte => Strobes(log) = ByteStrobes(call[2], ModeOf(call[1]))

C1_Witness ==
    /\ Idle
    /\ call = <<"LCD_WriteData", 171>>
    /\ Strobes(log) = <<Strobe(10, 1), Strobe(11, 1)>>

(***************************************************************************)
(* C2: at the return of LCD_IsReady, however its loop ended, Read/Write-   *)
(* select is 0, DB4..DB7 are all DriveOutput and the data field of the     *)
(* output register is 0.                                                   *)
(***************************************************************************)
C2_PollPostcondition ==
    PollReturns =>
        /\ lastPoll \in {"ready", "timeout"}
        /\ RnW = 0
        /\ AllPins(DriveOutput)
        /\ DataField(odr) = 0

C2_Witness ==
    /\ PollReturns
    /\ lastPoll = "timeout"
    /\ RnW = 0 /\ AllPins(DriveOutput) /\ DataField(odr) = 0

(***************************************************************************)
(* C3: whatever the display answers, a started LCD_IsReady returns; it     *)
(* never runs more than 404 loop iterations, and its timeout counter stays *)
(* within 0..404 (it counts down by one per iteration and never wraps).    *)
(***************************************************************************)
C3_PollTerminates ==
    /\ [](InPoll =>
            /\ iters \in 0 .. ClaimedBudget
            /\ timeout \in 0 .. ClaimedBudget
            /\ ~At("IsReady_587") => timeout = ClaimedBudget - iters)
    /\ (At("IsReady_587") ~> PollReturns)

C3_Witness ==
    /\ PollReturns
    /\ iters = ClaimedBudget
    /\ timeout = 0
    /\ firstClear = 0

WritingByte == call[1] \in {"LCD_WriteControl", "LCD_WriteData"}
Count(l, e) == Cardinality({k \in 1 .. Len(l) : l[k] = e})
FirstStrobe(l) == CHOOSE k \in 1 .. Len(l) : IsStrobe(l[k]) /\ \A j \in 1 .. k - 1 : ~IsStrobe(l[j])

C6_OnePollBeforeTheNibbles ==
    /\ (WritingByte /\ ~Idle /\ Len(Strobes(log)) = 1) =>
        /\ ~InPoll
        /\ RnW = 0
        /\ AllPins(DriveOutput)
    /\ WroteByte =>
        /\ Count(log, <<"IsReady">>) = 1
        /\ Count(log, <<"otype">>) = 1
        /\ \E k \in 1 .. FirstStrobe(log) : log[k] = <<"otype">>
        /\ \A k \in FirstStrobe(log) .. Len(log) :
            /\ log[k][1] \notin {"IsReady", "mode", "otype"}
            /\ log[k] # <<"RnW", 1>>

C6_Witness ==
    /\ WritingByte
    /\ At("WriteControl_236")
    /\ Len(Strobes(log)) = 1
    /\ Count(log, <<"IsReady">>) = 1

(***************************************************************************)
(* C7: a public byte write whose poll timed out (busy bit still set after  *)
(* the whole budget) returns like any other: both nibble strobes are       *)
(* issued, high then low, neither flag changes, and the pins are left as   *)
(* after a successful poll: Register-Select = mode, Read/Write-select = 0, *)
(* Enable = 0, data field = low nibble, DB4..DB7 DriveOutput.              *)
(***************************************************************************)
PinsAfterWrite(b, rs) ==
    /\ RS = rs /\ RnW = 0 /\ E = 0
    /\ DataField(odr) = b % 16
    /\ AllPins(DriveOutput)

C7_TimeoutDegradesSilently ==
    WroteByte =>
        /\ lastPoll \in {"ready", "timeout"}
        /\ PinsAfterWrite(call[2], ModeOf(call[1]))
        /\ lastPoll = "timeout" =>
            /\ Strobes(log) = <<Strobe(call[2] \div 16, ModeOf(call[1])),
                                Strobe(call[2] % 16, ModeOf(call[1]))>>
            /\ LCD_enableState = entry.enableState
            /\ LCD_initVar = entry.initVar

C7_Witness ==
    /\ WroteByte
    /\ lastPoll = "timeout"
    /\ call = <<"LCD_WriteControl", 12>>
    /\ PinsAfterWrite(12, 0)

(***************************************************************************)
(* C8: when LCD_Init reaches its first full command byte (LCD.c:97), what  *)
(* it has done so far is exactly: delay 40 ms, control nibble 3, delay     *)
(* 5 ms, control nibble 3, delay 15 ms, control nibble 3, delay 1 ms,      *)
(* control nibble 2, delay 5 ms - every nibble with Register-Select = 0 -  *)
(* with no readiness poll and no pin-direction change among them.          *)
(***************************************************************************)
IsOutline(e) == e[1] \in {"ms", "strobe", "IsReady", "mode", "otype", "configured"}
Outline(l) == SelectSeq(l, IsOutline)
Bootstrap ==
    << <<"ms", 40>>, Strobe(3, 0), <<"ms", 5>>, Strobe(3, 0), <<"ms", 15>>,
       Strobe(3, 0), <<"ms", 1>>, Strobe(2, 0), <<"ms", 5>> >>

C8_InitBootstrap ==
    /\ At("Init_97") => Outline(log) = Bootstrap
    /\ (Idle /\ call = <<"LCD_Init">>) =>
        /\ Len(Outline(log)) > Len(Bootstrap)
        /\ SubSeq(Outline(log), 1, Len(Bootstrap)) = Bootstrap

C8_Witness ==
    /\ At("Init_97")
    /\ call = <<"LCD_Start">>
    /\ Outline(log) = Bootstrap

(***************************************************************************)
(* C9 as claimed: in any sequence of public operations, LCD_Init and       *)
(* LCD_Start in any order, the initialization sequence completes at most   *)
(* once.                                                                   *)
(***************************************************************************)
C9_Claimed_InitRunsOnce == configured <= 1

(***************************************************************************)
(* C9 as amended: as long as the host has not called LCD_Init directly,    *)
(* the initialization sequence has completed at most once, LCD_initVar = 1 *)
(* only after it has, and from the return of the first LCD_Start on it has *)
(* completed exactly once.  A direct LCD_Init call is not guarded: it      *)
(* completes the sequence whatever LCD_initVar is, and leaves the flag as  *)
(* it found it.                                                            *)
(***************************************************************************)
C9_StartInitializesOnce ==
    /\ ~directInit =>
        /\ configured <= 1
        /\ LCD_initVar = 1 => configured = 1
        /\ (Idle /\ call = <<"LCD_Start">>) => (configured = 1 /\ LCD_initVar = 1)
    /\ (Idle /\ call = <<"LCD_Init">>) =>
        /\ Count(log, <<"configured">>) = 1
        /\ LCD_initVar = entry.initVar

C9_Witness ==
    /\ Idle
    /\ call = <<"LCD_Start">>
    /\ ~directInit
    /\ entry.initVar = 1
    /\ configured = 1

(***************************************************************************)
(* C10: an LCD_Start that finds LCD_initVar = 0 runs LCD_Init once, then   *)
(* sets LCD_initVar to 1, then issues the display-on command 0x0C and sets *)
(* LCD_enableState to 1; an LCD_Start that finds LCD_initVar = 1 issues    *)
(* only the command byte 0x0C and leaves both flags 1.  No step takes      *)
(* LCD_initVar from 1 back to 0.                                           *)
(***************************************************************************)
IndexOf(l, e) == CHOOSE k \in 1 .. Len(l) : l[k] = e
StartReturned == Idle /\ call = <<"LCD_Start">>

C10_StartCalls ==
    /\ [](StartReturned =>
            /\ LCD_initVar = 1
            /\ LCD_enableState = 1
            /\ Count(log, <<"LCD_Enable">>) = 1
            /\ Strobes(SubSeq(log, IndexOf(log, <<"LCD_Enable">>), Len(log)))
                 = <<Strobe(0, 0), Strobe(12, 0)>>
            /\ IF entry.initVar = 0
               THEN /\ Count(log, <<"configured">>) = 1
                    /\ IndexOf(log, <<"configured">>) < IndexOf(log, <<"LCD_Enable">>)
               ELSE /\ Count(log, <<"configured">>) = 0
                    /\ Strobes(log) = <<Strobe(0, 0), Strobe(12, 0)>>)
    /\ []((call = <<"LCD_Start">> /\ Count(log, <<"LCD_Enable">>) = 1) => LCD_initVar = 1)
    /\ [][LCD_initVar = 1 => LCD_initVar' = 1]_vars

C10_Witness ==
    /\ StartReturned
    /\ entry.initVar = 1
    /\ Strobes(log) = <<Strobe(0, 0), Strobe(12, 0)>>
    /\ LCD_initVar = 1 /\ LCD_enableState = 1

(***************************************************************************)
(* Cursor positioning: what a returned LCD_Position(row, column) has put   *)
(* on the bus.                                                             *)
(***************************************************************************)
RowStart(r) ==
    CASE r = 0 -> LCD_ROW_0_START
      [] r = 1 -> LCD_ROW_1_START
      [] r = 2 -> LCD_ROW_2_START
      [] r = 3 -> LCD_ROW_3_START

ValidRows == {0, 1, 2, 3}
PositionReturned == Idle /\ call[1] = "LCD_Position"

\* The bytes a history carries, one per pair of write strobes.
PairValue(s, k) == 16 * s[2 * k - 1][2] + s[2 * k][2]
StrobedBytes(l) == [k \in 1 .. Len(Strobes(l)) \div 2 |-> PairValue(Strobes(l), k)]
AllCommandStrobes(l) ==
    /\ Len(Strobes(l)) % 2 = 0
    /\ \A k \in 1 .. Len(Strobes(l)) : Strobes(l)[k][3] = 0 /\ Strobes(l)[k][4] = 0

(***************************************************************************)
(* C11 as claimed: for every row in 0..3 and every column in 0..255, a     *)
(* returned LCD_Position(row, column) has issued exactly one command byte  *)
(* (Register-Select = 0), of value {0x80,0xC0,0x94,0xD4}[row] + column.    *)
(***************************************************************************)
C11_Claimed_PositionByte ==
    (PositionReturned /\ call[2] \in ValidRows) =>
        /\ AllCommandStrobes(log)
        /\ StrobedBytes(log) = <<RowStart(call[2]) + call[3]>>

(***************************************************************************)
(* C11 as amended: for every row in 0..3 and every column in 0..255, a     *)
(* returned LCD_Position(row, column) has polled once and issued exactly   *)
(* one command byte (Register-Select = 0), whose value is                  *)
(* ({0x80,0xC0,0x94,0xD4}[row] + column) mod 256: the sum itself whenever  *)
(* it fits in a byte.                                                      *)
(***************************************************************************)
C11_PositionByteModulo ==
    (PositionReturned /\ call[2] \in ValidRows) =>
        /\ AllCommandStrobes(log)
        /\ Count(log, <<"IsReady">>) = 1
        /\ StrobedBytes(log) = <<(RowStart(call[2]) + call[3]) % 256>>
        /\ RowStart(call[2]) + call[3] <= 255 =>
               StrobedBytes(log) = <<RowStart(call[2]) + call[3]>>

C11_Witness ==
    /\ PositionReturned
    /\ call = <<"LCD_Position", 1, 65>>
    /\ StrobedBytes(log) = <<LCD_CLEAR_DISPLAY>>

(***************************************************************************)
(* C12: an LCD_Position whose row is outside 0..3 is a no-op.  No step of  *)
(* such a call changes a control pin, the output register, a pin           *)
(* direction or a flag; it reaches no statement of LCD_WriteControl, of    *)
(* the poll or of a nibble write; and its history at return is empty (no   *)
(* poll, no Enable edge, no delay).  The function returns void: there is   *)
(* no error to report.                                                     *)
(***************************************************************************)
InvalidRowCall == call[1] = "LCD_Position" /\ call[2] \in Byte \ ValidRows

C12_InvalidRowIsNoOp ==
    /\ [](InvalidRowCall =>
            /\ log = <<>>
            /\ stack \in {<<"Position_363">>, <<"Position_365">>, <<>>}
            /\ cByte = NoArg)
    /\ [][InvalidRowCall' =>
            UNCHANGED <<RS, RnW, E, odr, pinMode, LCD_enableState, LCD_initVar>>]_vars

C12_Witness ==
    /\ PositionReturned
    /\ call[2] = 4
    /\ log = <<>>
    /\ DataField(odr) = 11

(***************************************************************************)
(* The steps of one nibble write, read off the end of the history when the *)
(* write is about to return.                                               *)
(***************************************************************************)
Last(l, n) == SubSeq(l, Len(l) - n + 1, Len(l))
DataNibbleReturns == At("WrDatNib_285")
CommandNibbleReturns == At("WrCntrlNib_323")

\* select, delay of at least 2 us, field write, E up, delay of at least 1 us, E down
DelayedNibbleSteps(s, rs, nib) ==
    /\ Len(s) = 7
    /\ s[1] = <<"RS", rs>>
    /\ s[2] = <<"RnW", 0>>
    /\ s[3][1] = "us" /\ s[3][2] >= 2
    /\ s[4][1] = "port" /\ DataField(s[4][2]) = nib
    /\ s[5] = <<"E", 1>>
    /\ s[6][1] = "us" /\ s[6][2] >= 1
    /\ s[7] = <<"strobe", nib, rs, 0>>

\* select, field write, E up, delay of at least 1 us, E down
PlainNibbleSteps(s, rs, nib) ==
    /\ Len(s) = 6
    /\ s[1] = <<"RS", rs>>
    /\ s[2] = <<"RnW", 0>>
    /\ s[3][1] = "port" /\ DataField(s[3][2]) = nib
    /\ s[4] = <<"E", 1>>
    /\ s[5][1] = "us" /\ s[5][2] >= 1
    /\ s[6] = <<"strobe", nib, rs, 0>>

(***************************************************************************)
(* C13 as claimed: every nibble write, in Command mode as in Data mode,    *)
(* performs in this order: set Register-Select per mode and clear          *)
(* Read/Write-select, request a delay of at least 2 us, write the nibble   *)
(* to the data field, raise Enable, request a delay of at least 1 us,      *)
(* lower Enable.                                                           *)
(***************************************************************************)
C13_Claimed_SetupDelayInBothModes ==
    /\ DataNibbleReturns =>
        Len(log) >= 7 /\ DelayedNibbleSteps(Last(log, 7), 1, nibArg)
    /\ CommandNibbleReturns =>
        Len(log) >= 7 /\ DelayedNibbleSteps(Last(log, 7), 0, nibArg)

(***************************************************************************)
(* C13 as amended: a Data-mode nibble write performs, in this order: set   *)
(* Register-Select, clear Read/Write-select, request a delay of 2 us,      *)
(* write the nibble to the data field, raise Enable, request a delay of    *)
(* 1 us, lower Enable.  A Command-mode nibble write performs: clear        *)
(* Register-Select and Read/Write-select, write the nibble to the data     *)
(* field, raise Enable, request a delay of 1 us, lower Enable - it         *)
(* requests no delay between the change of RS/RW and the rising edge of    *)
(* Enable.                                                                 *)
(***************************************************************************)
C13_NibbleWriteSteps ==
    /\ DataNibbleReturns =>
        Len(log) >= 7 /\ DelayedNibbleSteps(Last(log, 7), 1, nibArg)
    /\ CommandNibbleReturns =>
        Len(log) >= 6 /\ PlainNibbleSteps(Last(log, 6), 0, nibArg)

C13_Witness ==
    /\ CommandNibbleReturns
    /\ call = <<"LCD_WriteControl", 60>>
    /\ nibArg = 12
    /\ Last(log, 6) = << <<"RS", 0>>, <<"RnW", 0>>, <<"port", gpioPortData>>,
                         <<"E", 1>>, <<"us", 1>>, <<"strobe", 12, 0, 0>> >>

(***************************************************************************)
(* One iteration of the poll loop, read off its history once its two       *)
(* Enable pulses are over.                                                 *)
(***************************************************************************)
SampleEvent(l) == l[CHOOSE k \in 1 .. Len(l) : l[k][1] = "sample"]
Sampled(l) == SampleEvent(l)[2]
ExtraDelay == <<"us", 10>>

(***************************************************************************)
(* C14: in every iteration of the poll loop the additional delay of 10 us  *)
(* is requested exactly when the busy bit sampled in that iteration is     *)
(* set; an iteration that sampled the busy bit clear requests no such      *)
(* delay.                                                                  *)
(***************************************************************************)
C14_DelayExactlyWhenBusy ==
    At("IsReady_645") =>
        (Count(iterLog, ExtraDelay) = 1 <=> BusyBit(Sampled(iterLog)) = 1)

(***************************************************************************)
(* C15: each iteration of the poll loop raises and lowers Enable exactly   *)
(* twice; the port is sampled exactly once, in the first pulse, with       *)
(* Enable high and after a delay of 1 us requested since its rising edge;  *)
(* and the value the loop test decides on is non-zero exactly when bit 3   *)
(* of the sampled data field is set, whatever the other port bits are.     *)
(***************************************************************************)
PollStrobe == <<"strobe", 0, 0, 1>>

C15_PollIteration ==
    At("IsReady_639") =>
        /\ Count(iterLog, <<"E", 1>>) = 2
        /\ Len(Strobes(iterLog)) = 2
        /\ Len(iterLog) = 9
        /\ iterLog[2] = <<"E", 1>>
        /\ iterLog[3] = <<"us", 1>>
        /\ iterLog[4] = <<"sample", Sampled(iterLog), 1>>
        /\ iterLog[5] = PollStrobe
        /\ iterLog[7] = <<"E", 1>>
        /\ iterLog[8] = <<"us", 1>>
        /\ iterLog[9] = PollStrobe
        /\ value = LCD_READY_BIT * BusyBit(Sampled(iterLog))
        /\ (value # 0) <=> (BitAnd(DataField(Sampled(iterLog)), 8) = 8)

C15_Witness ==
    /\ At("IsReady_639")
    /\ iterLog[4] = <<"sample", 65527, 1>>
    /\ Len(Strobes(iterLog)) = 2
    /\ value = 0

(***************************************************************************)
(* C16: in every reachable state of any sequence of public operations,     *)
(* Enable is high only while DB4..DB7 all have the same direction (all     *)
(* DriveOutput or all FloatingInput), and no step changes the direction of *)
(* a data pin while Enable is high.                                        *)
(***************************************************************************)
UniformDirection == AllPins(DriveOutput) \/ AllPins(FloatingInput)

C16_EnableOnlyWithUniformDirection ==
    /\ [](E = 1 => UniformDirection)
    /\ [][pinMode' # pinMode => (E = 0 /\ E' = 0)]_vars

C16_Witness ==
    /\ At("IsReady_618")
    /\ call = <<"LCD_Start">>
    /\ E = 1
    /\ AllPins(FloatingInput)

Releasing == {"IsReady_596", "IsReady_597", "IsReady_598"}
Reclaiming == {"IsReady_659", "IsReady_660", "IsReady_661"}
SwitchedUpTo(p, m, other) ==
    pinMode = [q \in DataPins |-> IF q <= p THEN m ELSE other]

PollOutline ==
    << <<"IsReady">>,
       <<"mode", 4, FloatingInput>>, <<"mode", 5, FloatingInput>>,
       <<"mode", 6, FloatingInput>>, <<"mode", 7, FloatingInput>>,
       <<"mode", 4, DriveOutput>>, <<"mode", 5, DriveOutput>>,
       <<"mode", 6, DriveOutput>>, <<"mode", 7, DriveOutput>>,
       <<"otype">> >>
CommandOutline(b) == PollOutline \o ByteStrobes(b, 0)

RECURSIVE CommandsOutline(_)
CommandsOutline(bytes) ==
    IF bytes = <<>> THEN <<>>
    ELSE CommandOutline(Head(bytes)) \o CommandsOutline(Tail(bytes))

InitOutline(bytes) == Bootstrap \o CommandsOutline(bytes) \o << <<"ms", 5>> >>

ClaimedInitCommands ==
    <<LCD_CURSOR_AUTO_INCR_ON, LCD_DISPLAY_CURSOR_ON, LCD_DISPLAY_2_LINES_5x10,
      LCD_DISPLAY_CURSOR_OFF, LCD_CLEAR_DISPLAY, LCD_RESET_CURSOR_POSITION>>
InitCommands ==
    <<LCD_CURSOR_AUTO_INCR_ON, LCD_DISPLAY_CURSOR_ON, LCD_DISPLAY_2_LINES_5x10,
      LCD_DISPLAY_CURSOR_OFF, LCD_CLEAR_DISPLAY, LCD_DISPLAY_ON_CURSOR_OFF,
      LCD_RESET_CURSOR_POSITION>>
InitEnds == At("Init_109")

(***************************************************************************)
(* C18 as claimed: after the bootstrap, LCD_Init issues through the        *)
(* byte-level protocol exactly the command bytes 0x06, 0x0E, 0x2C, 0x08,   *)
(* 0x01, 0x03, in this order and nothing else, then delays 5 ms and is     *)
(* Configured.                                                             *)
(***************************************************************************)
C18_Claimed_InitCommands == InitEnds => Outline(log) = InitOutline(ClaimedInitCommands)

(***************************************************************************)
(* C18 as amended: after the bootstrap, LCD_Init issues through the        *)
(* byte-level protocol (one poll, then two nibbles with Register-Select =  *)
(* 0) exactly the command bytes 0x06, 0x0E, 0x2C, 0x08, 0x01, 0x0C, 0x03,  *)
(* in this order and nothing else, then delays 5 ms and is Configured.     *)
(***************************************************************************)
C18_InitCommands ==
    /\ InitEnds => Outline(log) = InitOutline(InitCommands)
    /\ (Idle /\ call = <<"LCD_Init">>) =>
        Outline(log) = InitOutline(InitCommands) \o << <<"configured">> >>

C18_Witness ==
    /\ InitEnds
    /\ call = <<"LCD_Start">>
    /\ StrobedBytes(log) = <<51, 50>> \o InitCommands
    /\ Count(log, <<"IsReady">>) = 7

(***************************************************************************)
(* The turnaround of a poll: the pin-bank calls of LCD_IsReady outside its *)
(* loop, from the history since the poll began.  A write of the output     *)
(* register is identified by the data field it leaves.                     *)
(***************************************************************************)
LastIndexOf(l, e) ==
    CHOOSE k \in 1 .. Len(l) : l[k] = e /\ \A j \in k + 1 .. Len(l) : l[j] # e
PollLog == SubSeq(log, LastIndexOf(log, <<"IsReady">>), Len(log))
IsTurnaround(e) == e[1] \in {"port", "mode", "RS", "RnW"}
FieldOf(e) == IF e[1] = "port" THEN <<"field", DataField(e[2])>> ELSE e
Turnaround(l) == [k \in 1 .. Len(SelectSeq(l, IsTurnaround)) |->
                     FieldOf(SelectSeq(l, IsTurnaround)[k])]

\* clear the field, release the bus, RS low, R/W high
EntrySteps ==
    << <<"field", 0>>,
       <<"mode", 4, FloatingInput>>, <<"mode", 5, FloatingInput>>,
       <<"mode", 6, FloatingInput>>, <<"mode", 7, FloatingInput>>,
       <<"RS", 0>>, <<"RnW", 1>> >>
DriveSteps ==
    << <<"mode", 4, DriveOutput>>, <<"mode", 5, DriveOutput>>,
       <<"mode", 6, DriveOutput>>, <<"mode", 7, DriveOutput>> >>
\* R/W low, reclaim the bus, clear the field
ClaimedExitSteps == << <<"RnW", 0>> >> \o DriveSteps \o << <<"field", 0>> >>
\* R/W low, clear the field, reclaim the bus
ExitSteps == << <<"RnW", 0>>, <<"field", 0>> >> \o DriveSteps

FirstPulseAhead == At("IsReady_609") /\ iters = 0
LastPulseOver == At("IsReady_650")

(***************************************************************************)
(* C19 as claimed: on entry the poll clears the data field, then switches  *)
(* the bus to FloatingInput, then sets Register-Select low and             *)
(* Read/Write-select high, all before the first Enable pulse; on exit,     *)
(* after the last Enable pulse, it sets Read/Write-select low, then        *)
(* switches the bus back to DriveOutput, then clears the data field.       *)
(***************************************************************************)
C19_Claimed_TurnaroundOrder ==
    /\ FirstPulseAhead => Turnaround(PollLog) = EntrySteps
    /\ LastPulseOver => Turnaround(PollLog) = EntrySteps
    /\ PollReturns => Turnaround(PollLog) = EntrySteps \o ClaimedExitSteps

(***************************************************************************)
(* C19 as amended: on entry the poll clears the data field, then switches  *)
(* the bus to FloatingInput, then sets Register-Select low and             *)
(* Read/Write-select high, all before the first Enable pulse; on exit,     *)
(* after the last Enable pulse, it sets Read/Write-select low, then clears *)
(* the data field, then switches the bus back to DriveOutput.              *)
(***************************************************************************)
C19_TurnaroundOrder ==
    /\ FirstPulseAhead => (Turnaround(PollLog) = EntrySteps /\ iterLog = <<>>)
    /\ LastPulseOver => (Turnaround(PollLog) = EntrySteps /\ E = 0)
    /\ PollReturns => Turnaround(PollLog) = EntrySteps \o ExitSteps

C19_Witness ==
    /\ PollReturns
    /\ call = <<"LCD_WriteData", NoArg>>
    /\ lastPoll = "ready"
    /\ Turnaround(PollLog) = EntrySteps \o ExitSteps

(***************************************************************************)
(* C20: no step changes a bit of the output register outside the data      *)
(* field (outside LCD_STM32_NIBBLE_MASK), whatever the register held at    *)
(* power-up; the register changes only at the four field writes; after a   *)
(* nibble write's field write the field equals the nibble, after either    *)
(* field write of the poll it is 0.                                        *)
(***************************************************************************)
OtherBits(port) == BitAnd(port, BitNot16(LCD_STM32_NIBBLE_MASK))
NibbleFieldWrite == At("WrDatNib_275") \/ At("WrCntrlNib_314")
PollFieldWrite == At("IsReady_592") \/ At("IsReady_655")

C20_FieldWritesPreserveOtherBits ==
    /\ [](OtherBits(odr) \in {OtherBits(p) : p \in PowerUpPortBits})
    /\ [][OtherBits(odr') = OtherBits(odr)]_vars
    /\ [][odr' # odr => (NibbleFieldWrite \/ PollFieldWrite)]_vars
    /\ [][NibbleFieldWrite => DataField(odr') = nibArg]_vars
    /\ [][PollFieldWrite => DataField(odr') = 0]_vars

C20_Witness ==
    /\ At("WrDatNib_278")
    /\ nibArg = 10
    /\ odr = 23130
    /\ cByte = 165

(***************************************************************************)
(* C21: for every zero-terminated text, also of 256 characters and more,   *)
(* LCD_PrintString issues exactly one data byte per character, in text     *)
(* order and without the terminator, and then returns: at no time has it   *)
(* issued more data bytes than the text has characters, each byte issued   *)
(* was the character at its place, and at its return it has issued them    *)
(* all.                                                                    *)
(***************************************************************************)
Printing == call = <<"LCD_PrintString">>

C21_PrintsEachCharacterOnce ==
    Printing =>
        /\ printed <= string
        /\ faithful
        /\ At("PrintString_394") => printed = string

(***************************************************************************)
(* C22: in every reachable state of any sequence of public operations      *)
(* begun with DB4..DB7 DriveOutput and Read/Write-select = 0, Read/Write-  *)
(* select = 1 implies that DB4..DB7 are all FloatingInput: the host drives *)
(* no data pin while the display is told to drive the bus, at the entry    *)
(* to the poll, inside it and at its exit.                                 *)
(***************************************************************************)
C22_NoBusContention == RnW = 1 => AllPins(FloatingInput)

C22_Witness ==
    /\ At("IsReady_650")
    /\ call = <<"LCD_Init">>
    /\ RnW = 1
    /\ AllPins(FloatingInput)

(***************************************************************************)
(* C23: beginning with Enable low, in any sequence of public operations    *)
(* Register-Select, Read/Write-select, the output register and the pin     *)
(* directions change only in steps that begin and end with Enable low;     *)
(* Enable is high only between a statement that raises it and the          *)
(* statement of the same function that lowers it, which the function       *)
(* reaches after requesting a delay of at least 1 us; and Enable is low    *)
(* whenever no public operation is in progress.                            *)
(***************************************************************************)
EnableHighLabels ==
    {"WrDatNib_281", "WrDatNib_284", "WrCntrlNib_320", "WrCntrlNib_322",
     "IsReady_615", "IsReady_618", "IsReady_621", "IsReady_633", "IsReady_636"}
FallingLabels == {"WrDatNib_284", "WrCntrlNib_322", "IsReady_621", "IsReady_636"}
PulseHistory == IF InPoll THEN iterLog ELSE log
DwellRequested(h) ==
    /\ \E k \in 1 .. Len(h) : h[k] = <<"E", 1>>
    /\ \E k \in LastIndexOf(h, <<"E", 1>>) + 1 .. Len(h) : h[k][1] = "us" /\ h[k][2] >= 1
FallingDue == stack # <<>> /\ Head(stack) \in FallingLabels

C23_StrobeStability ==
    /\ [][(RS' # RS \/ RnW' # RnW \/ odr' # odr \/ pinMode' # pinMode)
            => (E = 0 /\ E' = 0)]_vars
    /\ [][(E = 1 /\ E' = 0) => (FallingDue /\ DwellRequested(PulseHistory))]_vars
    /\ [](E = 1 => (stack # <<>> /\ Head(stack) \in EnableHighLabels))
    /\ [](FallingDue => (E = 1 /\ DwellRequested(PulseHistory)))
    /\ [](Idle => E = 0)

C23_Witness ==
    /\ At("WrDatNib_284")
    /\ call = <<"LCD_WriteData", 90>>
    /\ E = 1
    /\ Last(log, 2) = << <<"E", 1>>, <<"us", 1>> >>

====
